---- MODULE Spec2Model ----
(***************************************************************************)
(* Scalar multiplication on a short Weierstrass curve with a = 0, as       *)
(* implemented in src/unnamed/part_000 (affine and Jacobian points, three  *)
(* multiplication strategies, the process-wide precompute cache) and in    *)
(* src/secp256k1.ts (the earlier affine-only file).                        *)
(*                                                                         *)
(* The source computes with unbounded bigints over the 256-bit prime of    *)
(* secp256k1.  TLC computes with 32-bit integers, so the curve parameters  *)
(* are scaled: the field prime is 19, the curve is y^2 = x^3 + 3, whose    *)
(* group has prime order 13 (cofactor 1, no point with x = 0 or y = 0),    *)
(* and the scalar width is 4 bits.  The scaling keeps the relations the    *)
(* code depends on: a = 0, P = 1 (mod 3), the order n is prime, every      *)
(* non-identity point generates the group, and                             *)
(* 2^(BITS-1) < n < 2^BITS - 1, exactly as 2^255 < n < 2^256 - 1.          *)
(* All arithmetic is written as the source writes it: reductions happen    *)
(* only where the source calls mod, and % and / are those of JavaScript    *)
(* bigints (truncating).                                                   *)
(***************************************************************************)
EXTENDS Integers, Sequences, FiniteSets, TLC

\* precomputes, precomputesJ: the module-level caches (part_000 lines 23-24).
\* call: the last call made, with its receiver, arguments, outcome and the
\*       add calls it made.
\* pc, loc, ret: for each caller of a cache getter under SpecConc, its
\*       position in the getter, its locals (this, dbl, i) and the array it
\*       was returned.
\* pushes: the number of push calls made on each cache under SpecConc.
VARIABLES precomputes, precomputesJ, call, pc, loc, ret, pushes

vars == <<precomputes, precomputesJ, call, pc, loc, ret, pushes>>

(***************************************************************************)
(* Curve parameters (scaled, see above).                                   *)
(***************************************************************************)
CURVE ==
  [a |-> 0, b |-> 3, P |-> 19, n |-> 13, h |-> 1, Gx |-> 1, Gy |-> 2]

\* The literal 256 of the loops over the bits of the scalar, scaled.
BITS == 4

\* Inputs of invert and egcd are drawn from -MaxVal..MaxVal.
MaxVal == 40

\* Number of concurrent callers of the cache getters.
NumCallers == 2

(***************************************************************************)
(* JavaScript bigint operators.                                            *)
(***************************************************************************)
Abs(v) == IF v >= 0 THEN v ELSE -v

\* a % b: the remainder has the sign of the dividend.
JsRem(a, b) == IF a >= 0 THEN a % Abs(b) ELSE -((-a) % Abs(b))

\* a / b: the quotient is truncated towards zero.
JsDiv(a, b) ==
  IF (a >= 0) = (b >= 0) THEN Abs(a) \div Abs(b) ELSE -(Abs(a) \div Abs(b))

\* const x = v; F(x): v is computed once and F sees its value.
Bind(v, F(_)) == CHOOSE out \in {F(x) : x \in {v}} : TRUE

(***************************************************************************)
(* Results of calls: a returned value or a thrown error.                   *)
(***************************************************************************)
Return(v) == [ok |-> TRUE, err |-> "", val |-> v]

Throw(e, dummy) == [ok |-> FALSE, err |-> e, val |-> dummy]

ErrPositive == "invert: expected positive integers"

ErrNotExist == "invert: does not exist"

ErrType == "TypeError"

(***************************************************************************)
(* Field arithmetic (identical text in both files for mod and egcd).       *)
(***************************************************************************)
mod_nocorrect(a, b) == JsRem(a, b)

mod(a, b) ==
  LET result == JsRem(a, b)
  IN  IF result >= 0 THEN result ELSE b + result

RECURSIVE egcdLoop(_, _, _, _, _, _)
egcdLoop(a, b, x, y, u, v) ==
  IF a # 0
  THEN LET q == JsDiv(b, a)
           r == JsRem(b, a)
           m == x - u * q
           n == y - v * q
       IN  egcdLoop(r, a, u, v, m, n)
  ELSE <<b, x, y>>

egcd(a, b) == egcdLoop(a, b, 0, 1, 1, 0)

\* src/unnamed/part_000
invert(number, modulo) ==
  IF number = 0 \/ modulo <= 0
  THEN Throw(ErrPositive, 0)
  ELSE Bind(egcd(mod(number, modulo), modulo), LAMBDA g :
         IF g[1] # 1
         THEN Throw(ErrNotExist, 0)
         ELSE Return(mod(g[2], modulo)))

\* src/secp256k1.ts
ts_invert(number, modulo) ==
  IF number = 0 \/ number <= 0
  THEN Throw(ErrPositive, 0)
  ELSE Bind(egcd(mod(number, modulo), modulo), LAMBDA g :
         IF g[1] # 1
         THEN Throw(ErrNotExist, 0)
         ELSE Return(mod(g[2], modulo)))

(***************************************************************************)
(* Affine points.                                                          *)
(***************************************************************************)
NewPoint(x, y) == [x |-> x, y |-> y]

Point == [ZERO |-> NewPoint(0, 0)]

G == NewPoint(CURVE.Gx, CURVE.Gy)

\* src/unnamed/part_000
Point_double(this) ==
  LET X1 == this.x
      Y1 == this.y
  IN  Bind(invert(2 * Y1, CURVE.P), LAMBDA inv :
        IF ~inv.ok
        THEN Throw(inv.err, Point.ZERO)
        ELSE Bind(mod(3 * X1 ^ 2 * inv.val, CURVE.P), LAMBDA lam :
             Bind(mod(lam * lam - 2 * X1, CURVE.P), LAMBDA X3 :
             Bind(mod(lam * (X1 - X3) - Y1, CURVE.P), LAMBDA Y3 :
               Return(NewPoint(X3, Y3))))))

Point_add(this, other) ==
  LET a == this
      b == other
      X1 == a.x
      Y1 == a.y
      X2 == b.x
      Y2 == b.y
  IN  IF X1 = 0 \/ Y1 = 0 THEN Return(b)
      ELSE IF X2 = 0 \/ Y2 = 0 THEN Return(a)
      ELSE IF X1 = X2 /\ Y1 = Y2 THEN Point_double(this)
      ELSE IF X1 = X2 /\ Y1 = -Y2 THEN Return(Point.ZERO)
      ELSE Bind(invert(X2 - X1, CURVE.P), LAMBDA inv :
             IF ~inv.ok
             THEN Throw(inv.err, Point.ZERO)
             ELSE Bind(mod((Y2 - Y1) * inv.val, CURVE.P), LAMBDA lam :
                  Bind(mod(lam * lam - X1 - X2, CURVE.P), LAMBDA X3 :
                  Bind(mod(lam * (X1 - X3) - Y1, CURVE.P), LAMBDA Y3 :
                    Return(NewPoint(X3, Y3))))))

RECURSIVE multiplyDALoop(_, _, _)
multiplyDALoop(n, p, d) ==
  IF n > 0
  THEN Bind(IF n % 2 = 1 THEN Point_add(p, d) ELSE Return(p), LAMBDA p1 :
         IF ~p1.ok THEN p1
         ELSE Bind(Point_double(d), LAMBDA d1 :
                IF ~d1.ok THEN d1
                ELSE multiplyDALoop(n \div 2, p1.val, d1.val)))
  ELSE Return(p)

multiplyDA(this, n) == multiplyDALoop(n, Point.ZERO, this)

getPublicKey(privKey) == multiplyDA(G, privKey)

\* src/secp256k1.ts
ts_Point_double(this) ==
  LET X1 == this.x
      Y1 == this.y
  IN  Bind(ts_invert(2 * Y1, CURVE.P), LAMBDA inv :
        IF ~inv.ok
        THEN Throw(inv.err, Point.ZERO)
        ELSE Bind(mod(3 * X1 ^ 2 * inv.val, CURVE.P), LAMBDA lam :
             Bind(mod(lam * lam - 2 * X1, CURVE.P), LAMBDA X3 :
             Bind(mod(lam * (X1 - X3) - Y1, CURVE.P), LAMBDA Y3 :
               Return(NewPoint(X3, Y3))))))

ts_Point_add(this, other) ==
  LET a == this
      b == other
      X1 == a.x
      Y1 == a.y
      X2 == b.x
      Y2 == b.y
  IN  IF X1 = 0 \/ Y1 = 0 THEN Return(b)
      ELSE IF X2 = 0 \/ Y2 = 0 THEN Return(a)
      ELSE IF X1 = X2 /\ Y1 = Y2 THEN ts_Point_double(this)
      ELSE IF X1 = X2 /\ Y1 = -Y2 THEN Return(Point.ZERO)
      ELSE Bind(ts_invert(X2 - X1, CURVE.P), LAMBDA inv :
             IF ~inv.ok
             THEN Throw(inv.err, Point.ZERO)
             ELSE Bind(mod(Y2 - Y1, CURVE.P) * inv.val, LAMBDA lam :
                  Bind(mod(lam * lam - X1 - X2, CURVE.P), LAMBDA X3 :
                  Bind(mod(lam * (X1 - X3) - Y1, CURVE.P), LAMBDA Y3 :
                    Return(NewPoint(X3, Y3))))))

RECURSIVE ts_multiplyDALoop(_, _, _)
ts_multiplyDALoop(n, p, d) ==
  IF n > 0
  THEN Bind(IF n % 2 = 1 THEN ts_Point_add(p, d) ELSE Return(p), LAMBDA p1 :
         IF ~p1.ok THEN p1
         ELSE Bind(ts_Point_double(d), LAMBDA d1 :
                IF ~d1.ok THEN d1
                ELSE ts_multiplyDALoop(n \div 2, p1.val, d1.val)))
  ELSE Return(p)

ts_multiplyDA(this, n) == ts_multiplyDALoop(n, Point.ZERO, this)

ts_getPublicKey(privKey) == ts_multiplyDA(G, privKey)

(***************************************************************************)
(* Jacobian points (src/unnamed/part_000).                                 *)
(***************************************************************************)
NewJacobianPoint(x, y, z) == [x |-> x, y |-> y, z |-> z]

JacobianPoint ==
  [BASE |-> NewJacobianPoint(CURVE.Gx, CURVE.Gy, 1),
   ZERO |-> NewJacobianPoint(0, 1, 0)]

\* The instanceof guard cannot fail: every argument here is a Point.
fromAffine(p) == NewJacobianPoint(p.x, p.y, 1)

\* Called without argument: invZ defaults to invert(this.z).
toAffine(this) ==
  Bind(invert(this.z, CURVE.P), LAMBDA inv :
    IF ~inv.ok
    THEN Throw(inv.err, Point.ZERO)
    ELSE LET invZ == inv.val
             invZ2 == invZ ^ 2
             x == mod(this.x * invZ2, CURVE.P)
             y == mod(this.y * invZ2 * invZ, CURVE.P)
         IN  Return(NewPoint(x, y)))

JacobianPoint_double(this) ==
  LET X1 == this.x
      Y1 == this.y
      Z1 == this.z
      A == X1 ^ 2
      B == Y1 ^ 2
      C == B ^ 2
      D == 2 * ((X1 + B) ^ 2 - A - C)
      E == 3 * A
      F == E ^ 2
  IN  Bind(mod(F - 2 * D, CURVE.P), LAMBDA X3 :
        LET Y3 == mod(E * (D - X3) - 8 * C, CURVE.P)
            Z3 == mod(2 * Y1 * Z1, CURVE.P)
        IN  NewJacobianPoint(X3, Y3, Z3))

\* The instanceof guard cannot fail: every argument here is a JacobianPoint.
JacobianPoint_add(this, other) ==
  LET X1 == this.x
      Y1 == this.y
      Z1 == this.z
      X2 == other.x
      Y2 == other.y
      Z2 == other.z
  IN  IF X2 = 0 \/ Y2 = 0 THEN this
      ELSE IF X1 = 0 \/ Y1 = 0 THEN other
      ELSE LET Z1Z1 == Z1 ^ 2
               Z2Z2 == Z2 ^ 2
               U1 == X1 * Z2Z2
               U2 == X2 * Z1Z1
               S1 == Y1 * Z2 * Z2Z2
               S2 == Y2 * Z1 * Z1Z1
           IN  Bind(mod(U2 - U1, CURVE.P), LAMBDA H :
               Bind(mod(S2 - S1, CURVE.P), LAMBDA r :
                 IF H = 0
                 THEN IF r = 0
                      THEN JacobianPoint_double(this)
                      ELSE JacobianPoint.ZERO
                 ELSE Bind(mod(H ^ 2, CURVE.P), LAMBDA HH :
                      Bind(mod(H * HH, CURVE.P), LAMBDA HHH :
                      Bind(U1 * HH, LAMBDA V :
                      Bind(mod(r ^ 2 - HHH - 2 * V, CURVE.P), LAMBDA X3 :
                        LET Y3 == mod(r * (V - X3) - S1 * HHH, CURVE.P)
                            Z3 == mod(Z1 * Z2 * H, CURVE.P)
                        IN  NewJacobianPoint(X3, Y3, Z3)))))))

(***************************************************************************)
(* The precompute cache (src/unnamed/part_000).  A module-level variable   *)
(* is undefined until first assigned; [] is truthy.                        *)
(***************************************************************************)
Undefined == [defined |-> FALSE, arr |-> <<>>]

Array(s) == [defined |-> TRUE, arr |-> s]

\* The for loop of getPrecomputes from iteration i on: the global after the
\* loop, and whether a double() threw on the way.
RECURSIVE getPrecomputesLoop(_, _, _)
getPrecomputesLoop(arr, dbl, i) ==
  IF i < BITS
  THEN Bind(Append(arr, dbl), LAMBDA pushed :
       Bind(Point_double(dbl), LAMBDA d :
         IF ~d.ok
         THEN [ok |-> FALSE, err |-> d.err, cache |-> Array(pushed)]
         ELSE getPrecomputesLoop(pushed, d.val, i + 1)))
  ELSE [ok |-> TRUE, err |-> "", cache |-> Array(arr)]

\* getPrecomputes on receiver this with the global holding cache: the
\* global afterwards (cache); when ok, cache.arr is the array returned.
getPrecomputes(this, cache) ==
  IF cache.defined
  THEN [ok |-> TRUE, err |-> "", cache |-> cache]
  ELSE getPrecomputesLoop(<<>>, this, 0)

RECURSIVE getPrecomputesJLoop(_, _, _)
getPrecomputesJLoop(arr, dbl, i) ==
  IF i < BITS
  THEN Bind(Append(arr, dbl), LAMBDA pushed :
       Bind(JacobianPoint_double(dbl), LAMBDA d :
         getPrecomputesJLoop(pushed, d, i + 1)))
  ELSE [ok |-> TRUE, err |-> "", cache |-> Array(arr)]

getPrecomputesJ(this, cache) ==
  IF cache.defined
  THEN [ok |-> TRUE, err |-> "", cache |-> cache]
  ELSE getPrecomputesJLoop(<<>>, fromAffine(this), 0)

(***************************************************************************)
(* The constant-time strategies.  adds records every call of add: the      *)
(* accumulator it goes into and the index of the table entry passed.       *)
(***************************************************************************)
AddCall(acc, i) == [acc |-> acc, i |-> i]

\* for (let i = 0; dbl = dbls[i], i < 256; i++): dbls[i] is undefined past
\* the end of the array, and add(undefined) throws a TypeError at other.x.
RECURSIVE multiplyCTLoop(_, _, _, _, _, _)
multiplyCTLoop(dbls, i, n, p, f, adds) ==
  IF i < BITS
  THEN LET acc == IF n % 2 = 1 THEN "p" ELSE "f"
       IN  Bind(Append(adds, AddCall(acc, i)), LAMBDA adds1 :
           Bind(IF i >= Len(dbls)
                THEN Throw(ErrType, Point.ZERO)
                ELSE Point_add(IF acc = "p" THEN p ELSE f, dbls[i + 1]),
                LAMBDA r :
             IF ~r.ok
             THEN [res |-> r, adds |-> adds1]
             ELSE multiplyCTLoop(dbls, i + 1, n \div 2,
                                 IF acc = "p" THEN r.val ELSE p,
                                 IF acc = "p" THEN f ELSE r.val, adds1)))
  ELSE [res |-> Return(p), adds |-> adds]

multiplyCT(this, n, cache) ==
  Bind(getPrecomputes(this, cache), LAMBDA got :
    IF ~got.ok
    THEN [res |-> Throw(got.err, Point.ZERO), adds |-> <<>>,
          cache |-> got.cache]
    ELSE Bind(multiplyCTLoop(got.cache.arr, 0, n, Point.ZERO, Point.ZERO,
                             <<>>), LAMBDA run :
           [res |-> run.res, adds |-> run.adds, cache |-> got.cache]))

\* JacobianPoint.add never throws on a JacobianPoint; past the end of the
\* array it is called with undefined and throws at its instanceof guard.
RECURSIVE multiplyPreCTJLoop(_, _, _, _, _, _)
multiplyPreCTJLoop(dbls, i, n, p, f, adds) ==
  IF i < BITS
  THEN LET acc == IF n % 2 = 1 THEN "p" ELSE "f"
           adds1 == Append(adds, AddCall(acc, i))
       IN  IF i >= Len(dbls)
           THEN [res |-> Throw(ErrType, Point.ZERO), adds |-> adds1]
           ELSE Bind(JacobianPoint_add(IF acc = "p" THEN p ELSE f,
                                       dbls[i + 1]), LAMBDA r :
                  multiplyPreCTJLoop(dbls, i + 1, n \div 2,
                                     IF acc = "p" THEN r ELSE p,
                                     IF acc = "p" THEN f ELSE r, adds1))
  ELSE [res |-> toAffine(p), adds |-> adds]

multiplyPreCTJ(this, n, cache) ==
  Bind(getPrecomputesJ(this, cache), LAMBDA got :
  Bind(multiplyPreCTJLoop(got.cache.arr, 0, n, JacobianPoint.ZERO,
                          JacobianPoint.ZERO, <<>>), LAMBDA run :
    [res |-> run.res, adds |-> run.adds, cache |-> got.cache]))

(***************************************************************************)
(* Inputs.                                                                 *)
(***************************************************************************)
Coord == 0 .. (CURVE.P - 1)

\* The non-identity points of the curve y^2 = x^3 + b.
OnCurve ==
  {p \in [x : Coord, y : Coord] : (p.y ^ 2 - p.x ^ 3 - CURVE.b) % CURVE.P = 0}

\* Receivers of the multiplication calls: the generator, its double, and
\* the identity.
Receivers == {G, NewPoint(14, 12), Point.ZERO}

Scalars == 0 .. (2 ^ BITS - 1)

Callers == 1 .. NumCallers

NoCall ==
  [op |-> "none", this |-> Point.ZERO, other |-> Point.ZERO, n |-> 0,
   m |-> 0, done |-> TRUE, res |-> Return(0), adds |-> <<>>]

Idle == [fn |-> "none", this |-> Point.ZERO, dbl |-> Point.ZERO, i |-> 0]

NoPushes == [precomputes |-> 0, precomputesJ |-> 0]

(***************************************************************************)
(* Spec: any sequence of multiplication calls, each run to completion      *)
(* (the host is single-threaded), on the process-wide caches.              *)
(***************************************************************************)
Init ==
  /\ precomputes = Undefined
  /\ precomputesJ = Undefined
  /\ call = NoCall
  /\ pc = [c \in Callers |-> "idle"]
  /\ loc = [c \in Callers |-> Idle]
  /\ ret = [c \in Callers |-> <<>>]
  /\ pushes = NoPushes

Called(op, this, n, res, adds) ==
  [op |-> op, this |-> this, other |-> Point.ZERO, n |-> n, m |-> 0,
   done |-> TRUE, res |-> res, adds |-> adds]

CallMultiplyDA ==
  \E this \in Receivers, n \in Scalars :
    /\ call' = Called("multiplyDA", this, n, multiplyDA(this, n), <<>>)
    /\ UNCHANGED <<precomputes, precomputesJ, pc, loc, ret, pushes>>

CallGetPublicKey ==
  \E privKey \in Scalars :
    /\ call' = Called("getPublicKey", G, privKey, getPublicKey(privKey), <<>>)
    /\ UNCHANGED <<precomputes, precomputesJ, pc, loc, ret, pushes>>

CallMultiplyCT ==
  \E this \in Receivers, n \in Scalars :
    \E r \in {multiplyCT(this, n, precomputes)} :
        /\ call' = Called("multiplyCT", this, n, r.res, r.adds)
        /\ precomputes' = r.cache
        /\ UNCHANGED <<precomputesJ, pc, loc, ret, pushes>>

CallMultiplyPreCTJ ==
  \E this \in Receivers, n \in Scalars :
    \E r \in {multiplyPreCTJ(this, n, precomputesJ)} :
        /\ call' = Called("multiplyPreCTJ", this, n, r.res, r.adds)
        /\ precomputesJ' = r.cache
        /\ UNCHANGED <<precomputes, pc, loc, ret, pushes>>

Next ==
  \/ CallMultiplyDA
  \/ CallGetPublicKey
  \/ CallMultiplyCT
  \/ CallMultiplyPreCTJ

Spec == Init /\ [][Next]_vars

(***************************************************************************)
(* SpecField: the pure functions of both files, each applied once to an    *)
(* input drawn by Init.                                                    *)
(***************************************************************************)
Pending(op, this, other, n, m) ==
  [op |-> op, this |-> this, other |-> other, n |-> n, m |-> m,
   done |-> FALSE, res |-> Return(0), adds |-> <<>>]

FieldInputs ==
  {Pending(op, Point.ZERO, Point.ZERO, n, CURVE.P) :
     op \in {"invert", "ts_invert"}, n \in (-MaxVal) .. MaxVal}
  \cup
  {Pending("egcd", Point.ZERO, Point.ZERO, n, m) :
     n \in 0 .. MaxVal, m \in {CURVE.P, CURVE.n, MaxVal}}
  \cup
  {Pending("mod", Point.ZERO, Point.ZERO, n, CURVE.P) :
     n \in (-MaxVal) .. MaxVal}

PointInputs ==
  {Pending(op, p, q, 0, 0) :
     op \in {"add", "ts_add"},
     p \in OnCurve \cup {Point.ZERO}, q \in OnCurve \cup {Point.ZERO}}
  \cup
  {Pending(op, p, Point.ZERO, 0, 0) :
     op \in {"double", "ts_double"}, p \in OnCurve \cup {Point.ZERO}}
  \cup
  {Pending("ts_getPublicKey", G, Point.ZERO, n, 0) : n \in Scalars}

InitField ==
  /\ precomputes = Undefined
  /\ precomputesJ = Undefined
  /\ call \in FieldInputs \cup PointInputs
  /\ pc = [c \in Callers |-> "idle"]
  /\ loc = [c \in Callers |-> Idle]
  /\ ret = [c \in Callers |-> <<>>]
  /\ pushes = NoPushes

Applied(res) == [call EXCEPT !.done = TRUE, !.res = res]

ApplyMod ==
  /\ call.op = "mod"
  /\ ~call.done
  /\ call' = Applied(Return(mod(call.n, call.m)))
  /\ UNCHANGED <<precomputes, precomputesJ, pc, loc, ret, pushes>>

ApplyEgcd ==
  /\ call.op = "egcd"
  /\ ~call.done
  /\ call' = Applied(Return(egcd(call.n, call.m)))
  /\ UNCHANGED <<precomputes, precomputesJ, pc, loc, ret, pushes>>

ApplyInvert ==
  /\ call.op = "invert"
  /\ ~call.done
  /\ call' = Applied(invert(call.n, call.m))
  /\ UNCHANGED <<precomputes, precomputesJ, pc, loc, ret, pushes>>

ApplyTsInvert ==
  /\ call.op = "ts_invert"
  /\ ~call.done
  /\ call' = Applied(ts_invert(call.n, call.m))
  /\ UNCHANGED <<precomputes, precomputesJ, pc, loc, ret, pushes>>

ApplyDouble ==
  /\ call.op = "double"
  /\ ~call.done
  /\ call' = Applied(Point_double(call.this))
  /\ UNCHANGED <<precomputes, precomputesJ, pc, loc, ret, pushes>>

ApplyTsDouble ==
  /\ call.op = "ts_double"
  /\ ~call.done
  /\ call' = Applied(ts_Point_double(call.this))
  /\ UNCHANGED <<precomputes, precomputesJ, pc, loc, ret, pushes>>

ApplyAdd ==
  /\ call.op = "add"
  /\ ~call.done
  /\ call' = Applied(Point_add(call.this, call.other))
  /\ UNCHANGED <<precomputes, precomputesJ, pc, loc, ret, pushes>>

ApplyTsAdd ==
  /\ call.op = "ts_add"
  /\ ~call.done
  /\ call' = Applied(ts_Point_add(call.this, call.other))
  /\ UNCHANGED <<precomputes, precomputesJ, pc, loc, ret, pushes>>

ApplyTsGetPublicKey ==
  /\ call.op = "ts_getPublicKey"
  /\ ~call.done
  /\ call' = Applied(ts_getPublicKey(call.n))
  /\ UNCHANGED <<precomputes, precomputesJ, pc, loc, ret, pushes>>

NextField ==
  \/ ApplyMod
  \/ ApplyEgcd
  \/ ApplyInvert
  \/ ApplyTsInvert
  \/ ApplyDouble
  \/ ApplyTsDouble
  \/ ApplyAdd
  \/ ApplyTsAdd
  \/ ApplyTsGetPublicKey

SpecField == InitField /\ [][NextField]_vars

(***************************************************************************)
(* SpecConc: NumCallers callers, each running getPrecomputes or            *)
(* getPrecomputesJ once on a valid point, their statements interleaved.    *)
(* The getters hold no lock and take no snapshot of the global: every      *)
(* statement reads and writes the module-level variable itself.            *)
(***************************************************************************)
ConcReceivers == {G, NewPoint(14, 12)}

Getters == {"getPrecomputes", "getPrecomputesJ"}

Global(fn) == IF fn = "getPrecomputes" THEN precomputes ELSE precomputesJ

SetGlobal(fn, v) ==
  IF fn = "getPrecomputes"
  THEN precomputes' = v /\ UNCHANGED precomputesJ
  ELSE precomputesJ' = v /\ UNCHANGED precomputes

Goto(c, label) == pc' = [pc EXCEPT ![c] = label]

\* A caller enters one of the two getters.
Enter(c) ==
  /\ pc[c] = "idle"
  /\ \E fn \in Getters, this \in ConcReceivers :
       loc' = [loc EXCEPT ![c] = [fn |-> fn, this |-> this,
                                  dbl |-> Point.ZERO, i |-> 0]]
  /\ Goto(c, "check")
  /\ UNCHANGED <<precomputes, precomputesJ, call, ret, pushes>>

\* if (precomputes) return precomputes;
Check(c) ==
  /\ pc[c] = "check"
  /\ IF Global(loc[c].fn).defined
     THEN /\ ret' = [ret EXCEPT ![c] = Global(loc[c].fn).arr]
          /\ Goto(c, "done")
     ELSE /\ Goto(c, "assign")
          /\ UNCHANGED ret
  /\ UNCHANGED <<precomputes, precomputesJ, call, loc, pushes>>

\* precomputes = [];
Assign(c) ==
  /\ pc[c] = "assign"
  /\ SetGlobal(loc[c].fn, Array(<<>>))
  /\ Goto(c, "init")
  /\ UNCHANGED <<call, loc, ret, pushes>>

\* let dbl = this (or fromAffine(this)); let i = 0
InitLoop(c) ==
  /\ pc[c] = "init"
  /\ loc' = [loc EXCEPT ![c].i = 0,
                        ![c].dbl = IF loc[c].fn = "getPrecomputes"
                                   THEN loc[c].this
                                   ELSE fromAffine(loc[c].this)]
  /\ Goto(c, "test")
  /\ UNCHANGED <<precomputes, precomputesJ, call, ret, pushes>>

\* i < 256
Test(c) ==
  /\ pc[c] = "test"
  /\ Goto(c, IF loc[c].i < BITS THEN "push" ELSE "return")
  /\ UNCHANGED <<precomputes, precomputesJ, call, loc, ret, pushes>>

\* precomputes.push(dbl);
Push(c) ==
  /\ pc[c] = "push"
  /\ SetGlobal(loc[c].fn, Array(Append(Global(loc[c].fn).arr, loc[c].dbl)))
  /\ pushes' = [pushes EXCEPT ![IF loc[c].fn = "getPrecomputes"
                                THEN "precomputes"
                                ELSE "precomputesJ"] = @ + 1]
  /\ Goto(c, "double")
  /\ UNCHANGED <<call, loc, ret>>

\* dbl = dbl.double(); i++
Double(c) ==
  /\ pc[c] = "double"
  /\ \E d \in {IF loc[c].fn = "getPrecomputes"
               THEN Point_double(loc[c].dbl)
               ELSE Return(JacobianPoint_double(loc[c].dbl))} :
       IF d.ok
       THEN /\ loc' = [loc EXCEPT ![c].dbl = d.val, ![c].i = @ + 1]
            /\ Goto(c, "test")
       ELSE /\ Goto(c, "raised")
            /\ UNCHANGED loc
  /\ UNCHANGED <<precomputes, precomputesJ, call, ret, pushes>>

\* return precomputes;
ReturnTable(c) ==
  /\ pc[c] = "return"
  /\ ret' = [ret EXCEPT ![c] = Global(loc[c].fn).arr]
  /\ Goto(c, "done")
  /\ UNCHANGED <<precomputes, precomputesJ, call, loc, pushes>>

NextConc ==
  \E c \in Callers :
    \/ Enter(c)
    \/ Check(c)
    \/ Assign(c)
    \/ InitLoop(c)
    \/ Test(c)
    \/ Push(c)
    \/ Double(c)
    \/ ReturnTable(c)

SpecConc == Init /\ [][NextConc]_vars

(***************************************************************************)
(* Reference notions used to state the properties.                         *)
(***************************************************************************)
\* The field inverse, by its defining equation.
FieldInv(v) == CHOOSE r \in Coord : (v * r) % CURVE.P = 1

\* The chord formula of the group law, reduced into [0, P).
Chord(p, q) ==
  LET lam == ((q.y - p.y) * FieldInv((q.x - p.x) % CURVE.P)) % CURVE.P
      x3 == (lam * lam - p.x - q.x) % CURVE.P
      y3 == (lam * (p.x - x3) - p.y) % CURVE.P
  IN  NewPoint(x3, y3)

Divides(d, v) == d # 0 /\ v % d = 0

\* Bit i of scalar n.
Bit(n, i) == (n \div (2 ^ i)) % 2

\* The table of successive doublings of a valid point, as a fresh process
\* builds it.
OwnTable(this) == getPrecomputes(this, Undefined).cache.arr

OwnTableJ(this) == getPrecomputesJ(this, Undefined).cache.arr

\* The last call was a constant-time multiplication on the generator that
\* used the generator's own table.
OnGeneratorTable ==
  \/ call.op = "multiplyCT" /\ call.this = G /\ precomputes.arr = OwnTable(G)
  \/ /\ call.op = "multiplyPreCTJ"
     /\ call.this = G
     /\ precomputesJ.arr = OwnTableJ(G)

OnGenerator ==
  \/ call.op \in {"multiplyDA", "getPublicKey"} /\ call.this = G
  \/ OnGeneratorTable

(***************************************************************************)
(* C1: for every scalar k in 1..n-1, multiplyDA(k), multiplyCT(k) and      *)
(* multiplyPreCTJ(k) on the generator all return normally, and return the  *)
(* same affine point.                                                      *)
(***************************************************************************)
C1_StrategiesAgree ==
  (OnGenerator /\ call.n \in 1 .. (CURVE.n - 1)) =>
    /\ call.res.ok
    /\ call.res = multiplyDA(G, call.n)
    /\ call.res = multiplyCT(G, call.n, Undefined).res
    /\ call.res = multiplyPreCTJ(G, call.n, Undefined).res

(***************************************************************************)
(* C2: multiplying the generator by the order n returns the identity       *)
(* (0, 0), for getPublicKey/multiplyDA and for each constant-time          *)
(* strategy; the call returns and does not raise.                          *)
(***************************************************************************)
C2_OrderGivesIdentity ==
  (OnGenerator /\ call.n = CURVE.n) => call.res = Return(Point.ZERO)

(***************************************************************************)
(* C3: inverse law: for every curve point p = (x, y), p.add(q) with        *)
(* q = (x, (-y) mod P) returns the identity (0, 0).                        *)
(***************************************************************************)
C3_InverseLaw ==
  ( /\ call.op \in {"add", "ts_add"}
    /\ call.done
    /\ call.this \in OnCurve
    /\ call.other = NewPoint(call.this.x, (-call.this.y) % CURVE.P) ) =>
    call.res = Return(Point.ZERO)

(***************************************************************************)
(* C4: affine add, general case: for curve points p, q with different x,   *)
(* p.add(q) returns, without raising, the point given by the chord         *)
(* formula, with both coordinates in [0, P); in both source files; and     *)
(* p.add(q) equals q.add(p).                                               *)
(***************************************************************************)
C4_AddGeneralCase ==
  ( /\ call.op \in {"add", "ts_add"}
    /\ call.done
    /\ call.this \in OnCurve
    /\ call.other \in OnCurve
    /\ call.this.x # call.other.x ) =>
    /\ call.res.ok
    /\ call.res.val = Chord(call.this, call.other)
    /\ call.res.val.x \in Coord
    /\ call.res.val.y \in Coord
    /\ call.res = IF call.op = "add"
                  THEN Point_add(call.other, call.this)
                  ELSE ts_Point_add(call.other, call.this)

(***************************************************************************)
(* C5: inverse correctness: for every a in 1..P-1, invert(a, P) returns r  *)
(* in [0, P) with (a * r) mod P = 1; and egcd(a, b) returns (gcd, x, y)    *)
(* with a*x + b*y = gcd, gcd a common divisor of a and b.                  *)
(***************************************************************************)
C5_InverseCorrect ==
  /\ ( /\ call.op \in {"invert", "ts_invert"}
       /\ call.done
       /\ call.n \in 1 .. (CURVE.P - 1) ) =>
       /\ call.res.ok
       /\ call.res.val \in Coord
       /\ (call.n * call.res.val) % CURVE.P = 1
  /\ (call.op = "egcd" /\ call.done) =>
       /\ call.n * call.res.val[2] + call.m * call.res.val[3] = call.res.val[1]
       /\ call.res.val[1] > 0
       /\ call.n # 0 => Divides(call.res.val[1], call.n)
       /\ Divides(call.res.val[1], call.m)

\* An inverse of a value in 1..P-1 was computed, and it needed the
\* correction of a negative Bezout coefficient.
C5_Witness ==
  /\ call.op = "invert"
  /\ call.done
  /\ call.n \in 1 .. (CURVE.P - 1)
  /\ call.res.ok
  /\ egcd(call.n, CURVE.P)[2] < 0

(***************************************************************************)
(* C6: invert(value, P) raises when value is 0 or gcd(reduce(value), P)    *)
(* is not 1, and in no other case: for every value not divisible by P,     *)
(* positive or negative, it returns a result.                              *)
(***************************************************************************)
C6_RaisesOnlyNonInvertible ==
  (call.op \in {"invert", "ts_invert"} /\ call.done) =>
    (~call.res.ok <=> call.n % CURVE.P = 0)

(***************************************************************************)
(* C7: the cache holds one table per base point: the table a call on       *)
(* receiver B uses has entry i equal to 2^i * B, so the call returns       *)
(* scalar * B also when an earlier call used a different receiver.         *)
(***************************************************************************)
C7_TablePerBasePoint ==
  /\ (call.op = "multiplyCT" /\ call.this \in OnCurve) =>
       /\ precomputes.arr = OwnTable(call.this)
       /\ call.res = multiplyCT(call.this, call.n, Undefined).res
  /\ (call.op = "multiplyPreCTJ" /\ call.this \in OnCurve) =>
       /\ precomputesJ.arr = OwnTableJ(call.this)
       /\ call.res = multiplyPreCTJ(call.this, call.n, Undefined).res

(***************************************************************************)
(* C8: constant-time discipline: whatever the scalar and the cache state,  *)
(* multiplyCT and multiplyPreCTJ make exactly 256 add calls, one per bit   *)
(* position i in order, with table entry i, into the result accumulator    *)
(* if bit i is set and into the discarded accumulator otherwise (stated    *)
(* here for receivers that are points of the curve).                       *)
(***************************************************************************)
C8_ConstantTime ==
  (call.op \in {"multiplyCT", "multiplyPreCTJ"} /\ call.this \in OnCurve) =>
    /\ Len(call.adds) = BITS
    /\ \A i \in 0 .. (BITS - 1) :
         call.adds[i + 1] =
           AddCall(IF Bit(call.n, i) = 1 THEN "p" ELSE "f", i)

(***************************************************************************)
(* C9: cache lifecycle: each cache is either absent or a complete table of *)
(* exactly 256 entries; once present its contents never change; a call     *)
(* that raises leaves the cache as it was before the call.                 *)
(***************************************************************************)
C9_CacheLifecycle ==
  [][ /\ precomputes'.defined => Len(precomputes'.arr) = BITS
      /\ precomputesJ'.defined => Len(precomputesJ'.arr) = BITS
      /\ precomputes.defined => precomputes' = precomputes
      /\ precomputesJ.defined => precomputesJ' = precomputesJ
      /\ ~call'.res.ok =>
           (precomputes' = precomputes /\ precomputesJ' = precomputesJ)
    ]_vars

====
